---- MODULE Spec2Model ----
(***************************************************************************)
(* State machine of the WeatherApp component (src/src/App.tsx): the view   *)
(* state held by useState, the debounce timeout of the search effect, the  *)
(* geolocation callbacks and the three kinds of network request (forecast, *)
(* geocode search, reverse geocode), each continuation between two awaits   *)
(* being one step.  Strings that the code measures or concatenates are      *)
(* sequences: searchQuery is a sequence of characters, selectedCity a      *)
(* sequence of the pieces the template literal joins.                      *)
(***************************************************************************)
EXTENDS Integers, Sequences, FiniteSets, TLC

\* ---------------------------------------------------------------- bounds
MaxQueryLen == 2      \* longest text typed in the search input
MaxRequests == 3      \* forecast and geocode search requests issued
MaxCode == 110        \* largest weather code rendered

Chars == {"a"}
Queries == UNION {[1..n -> Chars] : n \in 0..MaxQueryLen}

\* ------------------------------------------------------------ data model
NULL == "null"      \* error: no message
NoData == <<>>      \* weatherData: null; a forecast is a one-element sequence

\* interface City; admin1 is optional, so a record may lack the field
Paris ==
  [id |-> 1, name |-> "Paris", admin1 |-> "Ile-de-France", country |-> "France",
   latitude |-> 48, longitude |-> 2]
Monaco ==
  [id |-> 2, name |-> "Monaco", country |-> "Monaco", latitude |-> 43, longitude |-> 7]

\* non-empty `results` arrays the geocode endpoints answer with
SearchResults == {<<Paris, Monaco>>}
ReverseResults == {<<Paris, Monaco>>, <<Monaco>>}

\* position.coords handed to the success callback of getCurrentPosition
DevicePosition == [latitude |-> 51, longitude |-> 0]

\* values thrown inside fetchWeather's try block
NotOkError ==
  [isError |-> TRUE,
   message |-> "Failed to fetch weather data. Please try again later."]
TransportError == [isError |-> TRUE, message |-> "Failed to fetch"]
JsonError == [isError |-> TRUE, message |-> "Unexpected token in JSON"]

UnexpectedMessage == "An unexpected error occurred while fetching weather data."
PositionErrorMessage ==
  "Unable to retrieve your current location. Please allow location access or search for a city."
UnsupportedMessage ==
  "Geolocation is not supported by your browser. Please search for a city manually."

\* the messages that tell the user to search for a city
SearchHintMessages == {PositionErrorMessage, UnsupportedMessage}

CurrentLocationLabel == <<"Current Location">>

VARIABLES
  mounted,        \* the mount effects have run
  geoSupported,   \* navigator.geolocation is present
  weatherData, loading, error, searchQuery, cities, selectedCity,
  timers,         \* pending setTimeout callbacks of the debounce effect
  timeoutId,      \* the timeout id the latest effect run's cleanup closes over
  weatherReqs,    \* forecast requests in flight
  fetchSeq,       \* forecast requests issued
  lastIssued,     \* history: <<lat, lon>> of the forecast request issued last
  searchReqs,     \* geocode search requests in flight
  searchSeq,      \* geocode search requests issued
  positionReqs,   \* getCurrentPosition calls whose callback has not run
  reverseReqs,    \* reverse-geocode requests in flight
  citiesQuery,    \* history: the query whose response produced cities
  last,           \* history: how a forecast request settled, if the last step was that
  code,           \* current.weatherCode of the forecast rendered, if any
  backgroundGradient

viewVars == <<weatherData, loading, error, searchQuery, cities, selectedCity>>
timerVars == <<timers, timeoutId>>
weatherVars == <<weatherReqs, fetchSeq, lastIssued>>
searchVars == <<searchReqs, searchSeq>>
geoVars == <<positionReqs, reverseReqs>>
renderVars == <<code, backgroundGradient>>
vars ==
  <<mounted, geoSupported, viewVars, timerVars, weatherVars, searchVars,
    geoVars, citiesQuery, last, renderVars>>

\* ------------------------------------------------------- pure functions
Truthy(s) == s # ""

\* `${city.name}${city.admin1 ? `, ${city.admin1}` : ''}, ${city.country}`
CityLabel(city) ==
  <<city.name>>
    \o (IF "admin1" \in DOMAIN city /\ Truthy(city.admin1)
          THEN <<", ", city.admin1>> ELSE <<>>)
    \o <<", ", city.country>>

GradientClear == "from-blue-400 via-blue-500 to-indigo-600"
GradientCloudy == "from-gray-400 via-gray-500 to-gray-700"
GradientRain == "from-gray-600 via-blue-700 to-blue-900"
GradientSnow == "from-blue-300 via-blue-500 to-blue-700"
GradientThunderstorm == "from-purple-700 via-purple-800 to-gray-900"
GradientDefault == "from-blue-400 via-blue-500 to-blue-600"

getBackgroundGradient(c) ==
  IF c = 0 \/ c = 1 THEN GradientClear
  ELSE IF c = 2 \/ c = 3 THEN GradientCloudy
  ELSE IF c >= 51 /\ c <= 82 THEN GradientRain
  ELSE IF c >= 71 /\ c <= 75 THEN GradientSnow
  ELSE IF c >= 95 /\ c <= 99 THEN GradientThunderstorm
  ELSE GradientDefault

\* err instanceof Error ? err.message : '...'
CatchMessage(err) == IF err.isError THEN err.message ELSE UnexpectedMessage

\* ------------------------------------------------------------- Init
Init ==
  /\ mounted = FALSE
  /\ geoSupported \in BOOLEAN
  /\ weatherData = NoData
  /\ loading = FALSE
  /\ error = NULL
  /\ searchQuery = <<>>
  /\ cities = <<>>
  /\ selectedCity = <<>>
  /\ timers = {}
  /\ timeoutId = 0
  /\ weatherReqs = {}
  /\ fetchSeq = 0
  /\ lastIssued = <<>>
  /\ searchReqs = {}
  /\ searchSeq = 0
  /\ positionReqs = 0
  /\ reverseReqs = 0
  /\ citiesQuery = <<>>
  /\ last = "other"
  /\ code = <<>>
  /\ backgroundGradient = GradientDefault

\* requests issued so far, and those the pending position callbacks may issue
Issued == fetchSeq + searchSeq + positionReqs

\* ------------------------------------------------- debounce effect (255-261)
\* faulty variant: the cleanup does not cancel the pending timeout
ClearTimeoutNothing(ts, id) == ts

\* clearTimeout(timeoutId)
ClearTimeout(ts, id) == {t \in ts : t.id # id}

\* the id setTimeout returns: one no pending timeout has
FreshId(ts) ==
  CHOOSE n \in 1..(Cardinality(ts) + 1) :
    /\ \A t \in ts : t.id # n
    /\ \A m \in 1..(n - 1) : \E t \in ts : t.id = m

\* setTimeout(() => searchCities(q), 300).  History field: changes, the
\* changes of searchQuery since a timeout last fired (counted up to 2).
SetTimeout(ts, q, changes) ==
  ts \cup {[id |-> FreshId(ts), query |-> q, changes |-> changes]}

\* history only: the changes of searchQuery the timeout about to be set stands for
Changes ==
  IF ~mounted THEN 0
  ELSE IF \E t \in timers : t.id = timeoutId /\ t.changes > 0 THEN 2
  ELSE 1

\* one run of the effect for a changed searchQuery q: the previous run's
\* cleanup, then the effect body
DebounceEffect(q) ==
  /\ timers' = SetTimeout(ClearTimeout(timers, timeoutId), q, Changes)
  /\ timeoutId' = FreshId(ClearTimeout(timers, timeoutId))

\* ------------------------------------------------------ fetchWeather (145-166)
FetchErrorMessages == {NotOkError.message, TransportError.message, JsonError.message}

\* a request in flight.  History fields, kept while the request is the only
\* one in flight since it was issued (alone): retry, it was issued while the
\* message of a failed forecast request was shown; locErr, a location
\* failure was reported since.
NewWeatherReq(lat, lon) ==
  [id |-> fetchSeq + 1, lat |-> lat, lon |-> lon,
   alone |-> weatherReqs = {},
   retry |-> weatherReqs = {} /\ error \in FetchErrorMessages,
   locErr |-> FALSE]

Overlapped(r) == [r EXCEPT !.alone = FALSE, !.retry = FALSE, !.locErr = FALSE]

\* faulty variant: setError(null) is missing
fetchWeatherKeepsError(lat, lon) ==
  /\ loading' = TRUE
  /\ error' = error
  /\ weatherReqs' = {Overlapped(r) : r \in weatherReqs} \cup {NewWeatherReq(lat, lon)}
  /\ fetchSeq' = fetchSeq + 1
  /\ lastIssued' = <<lat, lon>>

\* the synchronous part: setLoading(true); setError(null); fetch(...)
fetchWeather(lat, lon) ==
  /\ loading' = TRUE
  /\ error' = NULL
  /\ weatherReqs' = {Overlapped(r) : r \in weatherReqs} \cup {NewWeatherReq(lat, lon)}
  /\ fetchSeq' = fetchSeq + 1
  /\ lastIssued' = <<lat, lon>>

WeatherUnchanged ==
  UNCHANGED <<mounted, geoSupported, searchQuery, cities, selectedCity, timerVars,
              fetchSeq, lastIssued, searchVars, geoVars, citiesQuery, renderVars>>

\* faulty variant: the catch block also clears the displayed forecast
WeatherCatchClearsData(r, err) ==
  /\ error' = CatchMessage(err)
  /\ loading' = FALSE
  /\ weatherReqs' = weatherReqs \ {r}
  /\ last' = "weatherFail"
  /\ weatherData' = NoData
  /\ WeatherUnchanged

\* catch (err) { setError(...) } finally { setLoading(false) }
WeatherCatch(r, err) ==
  /\ error' = CatchMessage(err)
  /\ loading' = FALSE
  /\ weatherReqs' = weatherReqs \ {r}
  /\ last' = "weatherFail"
  /\ UNCHANGED weatherData
  /\ WeatherUnchanged

\* fetch resolves with !response.ok: throw new Error(...)
WeatherNotOk(r) ==
  /\ r \in weatherReqs
  /\ WeatherCatch(r, NotOkError)

\* fetch rejects (transport failure)
WeatherReject(r) ==
  /\ r \in weatherReqs
  /\ WeatherCatch(r, TransportError)

\* fetch resolves with response.ok and response.json() rejects
WeatherMalformed(r) ==
  /\ r \in weatherReqs
  /\ WeatherCatch(r, JsonError)

\* the forecast the server answers request r with
WeatherPayload(r) == <<r.id>>

\* fetch resolves with response.ok and response.json() resolves:
\* setWeatherData(data); finally setLoading(false)
WeatherResolve(r) ==
  /\ r \in weatherReqs
  /\ weatherData' = WeatherPayload(r)
  /\ loading' = FALSE
  /\ weatherReqs' = weatherReqs \ {r}
  /\ last' = IF r.retry THEN "retryOk" ELSE "weatherOk"
  /\ UNCHANGED error
  /\ WeatherUnchanged

\* ------------------------------------------------------ searchCities (169-187)
\* faulty variant: the length test is missing
searchCitiesAlways(query, coalesced) ==
  /\ searchReqs' =
       searchReqs \cup {[id |-> searchSeq + 1, query |-> query, coalesced |-> coalesced]}
  /\ searchSeq' = searchSeq + 1
  /\ UNCHANGED <<cities, citiesQuery>>

\* the synchronous part, run by the timeout callback.  History field of the
\* request: coalesced, the timeout that issued it stood for several changes.
searchCities(query, coalesced) ==
  IF Len(query) < 2
    THEN /\ cities' = <<>>
         /\ citiesQuery' = <<>>
         /\ UNCHANGED searchVars
    ELSE /\ searchReqs' =
              searchReqs \cup
                {[id |-> searchSeq + 1, query |-> query, coalesced |-> coalesced]}
         /\ searchSeq' = searchSeq + 1
         /\ UNCHANGED <<cities, citiesQuery>>

\* the timeout of the debounce effect fires: searchCities(searchQuery) with the
\* searchQuery of the render that set the timeout
DebounceFire(t) ==
  /\ t \in timers
  /\ Len(t.query) < 2 \/ Issued < MaxRequests
  /\ timers' = timers \ {t}
  /\ searchCities(t.query, t.changes > 1)
  /\ last' = "other"
  /\ UNCHANGED <<mounted, geoSupported, weatherData, loading, error, searchQuery,
                 selectedCity, timeoutId, weatherVars, geoVars, renderVars>>

\* bodies the geocode endpoints answer with: a results array, or none
GeocodeData(lists) == {[results |-> l] : l \in lists \cup {<<>>}} \cup {[generationtime |-> 1]}

\* data.results || []
ResultsOrEmpty(data) == IF "results" \in DOMAIN data THEN data.results ELSE <<>>

\* fetch or response.json() rejects: catch (err) { console.error(...) }
SearchReject(s) ==
  /\ s \in searchReqs
  /\ searchReqs' = searchReqs \ {s}
  /\ last' = "other"
  /\ UNCHANGED <<mounted, geoSupported, viewVars, timerVars, weatherVars, searchSeq,
                 geoVars, citiesQuery, renderVars>>

\* setCities(data.results || [])
SetCitiesFromResponse(s, data) ==
  /\ cities' = ResultsOrEmpty(data)
  /\ citiesQuery' = IF ResultsOrEmpty(data) = <<>> THEN <<>> ELSE s.query

\* fetch and response.json() resolve
SearchResolve(s, data) ==
  /\ s \in searchReqs
  /\ SetCitiesFromResponse(s, data)
  /\ searchReqs' = searchReqs \ {s}
  /\ last' = "other"
  /\ UNCHANGED <<mounted, geoSupported, weatherData, loading, error, searchQuery,
                 selectedCity, timerVars, weatherVars, searchSeq, geoVars, renderVars>>

\* ------------------------------------------------ getCurrentLocation (190-226)
\* history only: a location failure was reported while r was alone in flight
NoteLocationError(reqs) == {[r EXCEPT !.locErr = r.alone] : r \in reqs}

\* faulty variant: the else branch reports nothing
getCurrentLocationSilent ==
  /\ IF geoSupported
       THEN /\ positionReqs' = positionReqs + 1
            /\ UNCHANGED <<error, weatherReqs>>
       ELSE UNCHANGED <<error, weatherReqs, positionReqs>>

\* the synchronous part: navigator.geolocation.getCurrentPosition(...), or
\* the else branch when navigator.geolocation is missing
getCurrentLocation ==
  /\ IF geoSupported
       THEN /\ positionReqs' = positionReqs + 1
            /\ UNCHANGED <<error, weatherReqs>>
       ELSE /\ error' = UnsupportedMessage
            /\ weatherReqs' = NoteLocationError(weatherReqs)
            /\ UNCHANGED positionReqs

\* onClick={getCurrentLocation}
ClickCurrentLocation ==
  /\ mounted
  /\ Issued < MaxRequests
  /\ getCurrentLocation
  /\ last' = "other"
  /\ UNCHANGED <<mounted, geoSupported, weatherData, loading, searchQuery, cities,
                 selectedCity, timerVars, fetchSeq, lastIssued, searchVars, reverseReqs,
                 citiesQuery, renderVars>>

\* the success callback up to its first await: fetchWeather(lat, lon), then
\* fetch(.../api/reverse-geocode?...)
PositionSuccess ==
  /\ positionReqs > 0
  /\ positionReqs' = positionReqs - 1
  /\ fetchWeather(DevicePosition.latitude, DevicePosition.longitude)
  /\ reverseReqs' = reverseReqs + 1
  /\ last' = "other"
  /\ UNCHANGED <<mounted, geoSupported, weatherData, searchQuery, cities, selectedCity,
                 timerVars, searchVars, citiesQuery, renderVars>>

\* the error callback
PositionError ==
  /\ positionReqs > 0
  /\ positionReqs' = positionReqs - 1
  /\ error' = PositionErrorMessage
  /\ weatherReqs' = NoteLocationError(weatherReqs)
  /\ last' = "other"
  /\ UNCHANGED <<mounted, geoSupported, weatherData, loading, searchQuery, cities,
                 selectedCity, timerVars, fetchSeq, lastIssued, searchVars, reverseReqs,
                 citiesQuery, renderVars>>

ReverseUnchanged ==
  UNCHANGED <<mounted, geoSupported, weatherData, loading, error, searchQuery, cities,
              timerVars, weatherVars, searchVars, positionReqs,
              citiesQuery, renderVars>>

\* faulty variant: the label is built from the last result
ReverseLabelLast(data) ==
  IF "results" \in DOMAIN data /\ Len(data.results) > 0
    THEN CityLabel(data.results[Len(data.results)])
    ELSE CurrentLocationLabel

\* data.results && data.results.length > 0 ? label of data.results[0]
\*                                         : 'Current Location'
ReverseLabel(data) ==
  IF "results" \in DOMAIN data /\ Len(data.results) > 0
    THEN CityLabel(data.results[1])
    ELSE CurrentLocationLabel

\* fetch and response.json() resolve
ReverseResolve(data) ==
  /\ reverseReqs > 0
  /\ reverseReqs' = reverseReqs - 1
  /\ selectedCity' = ReverseLabel(data)
  /\ last' = "other"
  /\ ReverseUnchanged

\* fetch or response.json() rejects:
\* catch (err) { console.error(...); setSelectedCity('Current Location') }
ReverseReject ==
  /\ reverseReqs > 0
  /\ reverseReqs' = reverseReqs - 1
  /\ selectedCity' = CurrentLocationLabel
  /\ last' = "other"
  /\ ReverseUnchanged

\* -------------------------------------------------- handleCitySelect (229-234)
\* faulty variant: setCities([]) is missing
handleCitySelectKeepsCities(city) ==
  /\ selectedCity' = CityLabel(city)
  /\ searchQuery' = <<>>
  /\ UNCHANGED <<cities, citiesQuery>>
  /\ fetchWeather(city.latitude, city.longitude)

handleCitySelect(city) ==
  /\ selectedCity' = CityLabel(city)
  /\ searchQuery' = <<>>
  /\ cities' = <<>>
  /\ citiesQuery' = <<>>
  /\ fetchWeather(city.latitude, city.longitude)

\* onClick={() => handleCitySelect(city)} on an entry of the dropdown; the
\* debounce effect runs again when searchQuery changed
ClickCity(i) ==
  /\ mounted
  /\ i \in 1..Len(cities)
  /\ Issued < MaxRequests
  /\ handleCitySelect(cities[i])
  /\ IF searchQuery # <<>> THEN DebounceEffect(<<>>) ELSE UNCHANGED timerVars
  /\ last' = "other"
  /\ UNCHANGED <<mounted, geoSupported, weatherData, searchVars, geoVars, renderVars>>

\* onChange={(e) => setSearchQuery(e.target.value)}, then the debounce effect
OnChange(q) ==
  /\ mounted
  /\ q \in Queries /\ q # searchQuery
  /\ searchQuery' = q
  /\ DebounceEffect(q)
  /\ last' = "other"
  /\ UNCHANGED <<mounted, geoSupported, weatherData, loading, error, cities,
                 selectedCity, weatherVars, searchVars, geoVars, citiesQuery,
                 renderVars>>

\* the effects of the first render: the debounce effect (255-261) and
\* getCurrentLocation() (264-266)
Mount ==
  /\ ~mounted
  /\ mounted' = TRUE
  /\ DebounceEffect(searchQuery)
  /\ getCurrentLocation
  /\ last' = "other"
  /\ UNCHANGED <<geoSupported, weatherData, loading, searchQuery, cities, selectedCity,
                 fetchSeq, lastIssued, searchVars, reverseReqs, citiesQuery, renderVars>>

\* ------------------------------------------------ backgroundGradient (269-271)
Codes == (0 - MaxCode)..MaxCode

\* a forecast whose current.weatherCode is c is rendered:
\* weatherData ? getBackgroundGradient(weatherData.current.weatherCode) : default
Render(c) ==
  /\ code' = <<c>>
  /\ backgroundGradient' = getBackgroundGradient(c)
  /\ UNCHANGED <<mounted, geoSupported, viewVars, timerVars, weatherVars, searchVars,
                 geoVars, citiesQuery, last>>

\* ----------------------------------------------------------- specification
Next ==
  \/ Mount
  \/ \E q \in Queries : OnChange(q)
  \/ \E t \in timers : DebounceFire(t)
  \/ \E s \in searchReqs, data \in GeocodeData(SearchResults) : SearchResolve(s, data)
  \/ \E s \in searchReqs : SearchReject(s)
  \/ \E i \in 1..Len(cities) : ClickCity(i)
  \/ ClickCurrentLocation
  \/ PositionSuccess
  \/ PositionError
  \/ \E data \in GeocodeData(ReverseResults) : ReverseResolve(data)
  \/ ReverseReject
  \/ \E r \in weatherReqs : WeatherResolve(r)
  \/ \E r \in weatherReqs : WeatherNotOk(r)
  \/ \E r \in weatherReqs : WeatherReject(r)
  \/ \E r \in weatherReqs : WeatherMalformed(r)

Spec == Init /\ [][Next]_vars

\* the gradient function alone, over every code of Codes
NextRender == \E c \in Codes : Render(c)

SpecRender == Init /\ [][NextRender]_vars

\* ------------------------------------------------------------------ claims
AllSettled == weatherReqs = {}

\* C1: latest forecast request wins.  When every forecast request has
\* settled and none has failed since the latest one was issued (error is
\* still null, so the latest one succeeded), the displayed weatherData is
\* the result of the request issued last, whatever the order the responses
\* resolved in.
C1_LatestRequestWins ==
  (AllSettled /\ fetchSeq > 0 /\ error = NULL) => weatherData = <<fetchSeq>>

\* C2: stale search results are suppressed: a non-empty candidate list was
\* produced by a search for the current searchQuery.
C2_CandidatesAreForCurrentQuery ==
  cities # <<>> => citiesQuery = searchQuery

\* the background category the table of bucket rules gives a weather code
backgroundCategory(c) ==
  IF c \in {0, 1} THEN "Clear"
  ELSE IF c \in {2, 3} THEN "Cloudy"
  ELSE IF c \in (51..55) \cup (61..65) \cup (80..82) THEN "Rain"
  ELSE IF c \in 71..75 THEN "Snow"
  ELSE IF c \in {95, 96, 99} THEN "Thunderstorm"
  ELSE "Default"

\* the gradient getBackgroundGradient's comments give each category
CategoryGradient(category) ==
  CASE category = "Clear" -> GradientClear
    [] category = "Cloudy" -> GradientCloudy
    [] category = "Rain" -> GradientRain
    [] category = "Snow" -> GradientSnow
    [] category = "Thunderstorm" -> GradientThunderstorm
    [] OTHER -> GradientDefault

\* C9: for every integer weather code the rendered background is the one of
\* the category the bucket table gives: Clear for {0,1}, Cloudy for {2,3},
\* Rain for {51..55, 61..65, 80..82}, Snow for {71..75}, Thunderstorm for
\* {95,96,99}, Default for every other code.
C9_BackgroundFollowsTable ==
  code # <<>> => backgroundGradient = CategoryGradient(backgroundCategory(code[1]))

\* C10: the candidate list is cleared as soon as the query is shorter than
\* two characters: whenever Len(searchQuery) < 2, cities is empty.
C10_ShortQueryHasNoCandidates ==
  Len(searchQuery) < 2 => cities = <<>>

C4_NoSearchForShortQuery ==
  \A s \in searchReqs : Len(s.query) >= 2

\* the timeout has fired for a one-character query and no request was issued
C4_Witness ==
  mounted /\ timers = {} /\ Len(searchQuery) = 1 /\ searchSeq = 0 /\ searchReqs = {}

\* C5: debounce coalescing.  Each change of searchQuery cancels the pending
\* timeout and starts a new one, so at most one timeout is pending and it
\* carries the current query; a search request is issued only by that
\* timeout firing, one request per firing, for the current query.  Changes
\* made before the timeout fires therefore yield exactly one request, for
\* the final value, and none for a superseded value.
C5_OnePendingTimeout ==
  /\ Cardinality(timers) <= 1
  /\ \A t \in timers : t.query = searchQuery

C5_ChangeRestartsTimeout ==
  searchQuery' # searchQuery =>
    /\ Cardinality(timers') = 1
    /\ \A t \in timers' : t.query = searchQuery'
    /\ searchSeq' = searchSeq

C5_RequestOnlyFromTimeout ==
  searchSeq' # searchSeq =>
    /\ searchSeq' = searchSeq + 1
    /\ searchQuery' = searchQuery
    /\ Len(searchQuery) >= 2
    /\ \E t \in timers : t.query = searchQuery /\ timers' = timers \ {t}
    /\ timers' = {}
    /\ \E s \in searchReqs' :
         /\ s.query = searchQuery
         /\ searchReqs' = searchReqs \cup {s}
         /\ s \notin searchReqs

C5_DebounceCoalesces ==
  /\ []C5_OnePendingTimeout
  /\ [][C5_ChangeRestartsTimeout]_vars
  /\ [][C5_RequestOnlyFromTimeout]_vars

\* several changes were made before the timeout fired, and the one request
\* issued carries the final query
C5_Witness ==
  /\ searchSeq = 1
  /\ timers = {}
  /\ \E s \in searchReqs : s.coalesced /\ s.query = searchQuery

\* the steps in which obtaining the device coordinates fails
LocationFails ==
  \/ PositionError
  \/ ~geoSupported /\ (Mount \/ ClickCurrentLocation)

InFlightIds(reqs) == {r.id : r \in reqs}

\* C6: when obtaining the device coordinates fails (geolocation unsupported,
\* or the position request reports an error), error is set to a message
\* that tells the user to search for a city, and that step issues neither a
\* forecast request nor a reverse-geocode request.
C6_LocationFailureOnlyReports ==
  [][LocationFails =>
       /\ error' \in SearchHintMessages
       /\ fetchSeq' = fetchSeq
       /\ InFlightIds(weatherReqs') = InFlightIds(weatherReqs)
       /\ reverseReqs' = reverseReqs]_vars

\* the position request of the mount has failed and nothing was requested
C6_Witness ==
  /\ mounted /\ geoSupported /\ positionReqs = 0
  /\ error = PositionErrorMessage
  /\ fetchSeq = 0 /\ reverseReqs = 0 /\ weatherReqs = {}

\* "name[, admin1], country"
LabelOf(place) ==
  IF "admin1" \in DOMAIN place
    THEN <<place.name, ", ", place.admin1, ", ", place.country>>
    ELSE <<place.name, ", ", place.country>>

HasResults(data) == "results" \in DOMAIN data /\ data.results # <<>>

\* C7: once the device coordinates are obtained, a reverse lookup that
\* returns no results or fails sets selectedCity to the literal "Current
\* Location" and leaves error unchanged; one that returns at least one
\* result sets selectedCity to the label "name[, admin1], country" of the
\* first result (and leaves error unchanged too).
C7_ReverseLookupLabel ==
  /\ [][(ReverseReject
          \/ \E d \in GeocodeData(ReverseResults) : ~HasResults(d) /\ ReverseResolve(d))
         => (selectedCity' = <<"Current Location">> /\ error' = error)]_vars
  /\ [][\A d \in GeocodeData(ReverseResults) :
          (HasResults(d) /\ ReverseResolve(d))
            => (selectedCity' = LabelOf(d.results[1]) /\ error' = error)]_vars

\* the reverse lookup of the only position obtained found nothing, and no
\* error is shown
C7_Witness ==
  /\ selectedCity = <<"Current Location">>
  /\ error = NULL
  /\ fetchSeq = 1 /\ reverseReqs = 0 /\ positionReqs = 0

\* request r, issued while the message of a failed forecast request was
\* shown and alone in flight ever since, settles successfully
RetrySucceeds(r) ==
  /\ r \in weatherReqs /\ r.retry /\ r.alone
  /\ weatherReqs' = {}
  /\ last' = "retryOk"

\* C8 as stated: after a failed forecast request, a later forecast request
\* that succeeds with no other request in flight leaves error null, loading
\* false and weatherData its own result.
C8_RecoveryClearsError ==
  [][\A r \in weatherReqs :
       RetrySucceeds(r)
         => (error' = NULL /\ loading' = FALSE /\ weatherData' = WeatherPayload(r))]_vars

\* C8 amended: ... leaves loading false and weatherData its own result; error
\* is null unless getCurrentLocation reported a location failure while the
\* request was in flight, and is then that location message.
C8_RecoveryUnlessLocationFailure ==
  [][\A r \in weatherReqs :
       RetrySucceeds(r)
         => /\ loading' = FALSE
            /\ weatherData' = WeatherPayload(r)
            /\ IF r.locErr THEN error' \in SearchHintMessages ELSE error' = NULL]_vars

\* a retry has just succeeded: no error, not loading, its result displayed
C8_Witness ==
  /\ last = "retryOk"
  /\ error = NULL /\ ~loading /\ weatherData = <<fetchSeq>> /\ weatherReqs = {}

\* C11: when a geocode search request fails (transport failure or
\* unparseable response), the candidate list becomes empty and neither error
\* nor weatherData changes; a list populated by an earlier search does not
\* stay displayed.
C11_FailedSearchEmptiesCandidates ==
  [][(\E s \in searchReqs : SearchReject(s))
       => (cities' = <<>> /\ error' = error /\ weatherData' = weatherData)]_vars

\* C12: handleCitySelect(city), in one step, sets selectedCity to the label
\* "name[, admin1], country" of the city, empties searchQuery and cities,
\* and issues exactly one forecast request, for the city's latitude and
\* longitude; weatherData stays as it is until that request resolves.
C12_SelectIssuesOneForecast ==
  [][\A i \in 1..Len(cities) :
       ClickCity(i) =>
         /\ selectedCity' = LabelOf(cities[i])
         /\ searchQuery' = <<>>
         /\ cities' = <<>>
         /\ weatherData' = weatherData
         /\ fetchSeq' = fetchSeq + 1
         /\ InFlightIds(weatherReqs') = InFlightIds(weatherReqs) \cup {fetchSeq + 1}
         /\ \A r \in weatherReqs' :
              r.id = fetchSeq + 1 =>
                r.lat = cities[i].latitude /\ r.lon = cities[i].longitude]_vars

\* Monaco was selected from the dropdown: its label is shown, the input and
\* the list are empty, and the one forecast request in flight is for
\* Monaco's coordinates, nothing displayed yet
C12_Witness ==
  /\ selectedCity = LabelOf(Monaco)
  /\ searchQuery = <<>> /\ cities = <<>>
  /\ weatherData = NoData /\ fetchSeq = 1
  /\ \E r \in weatherReqs :
       /\ weatherReqs = {r}
       /\ r.lat = Monaco.latitude /\ r.lon = Monaco.longitude

\* C13: loading is true if and only if at least one forecast request is in
\* flight; in particular it stays true when the first of two overlapping
\* requests settles.
C13_LoadingIffInFlight ==
  loading <=> weatherReqs # {}

\* every place a dropdown entry can stand for
Candidates == UNION {{l[i] : i \in DOMAIN l} : l \in SearchResults}

DeviceCoordinates == <<DevicePosition.latitude, DevicePosition.longitude>>

\* the labels that name the location at the coordinates: for the device's
\* position what a reverse lookup can give, for a city its own label
LabelsAt(coordinates) ==
  IF coordinates = DeviceCoordinates
    THEN {CurrentLocationLabel} \cup {LabelOf(l[1]) : l \in ReverseResults}
    ELSE {LabelOf(c) : c \in {d \in Candidates : <<d.latitude, d.longitude>> = coordinates}}

NothingInFlight ==
  weatherReqs = {} /\ searchReqs = {} /\ positionReqs = 0 /\ reverseReqs = 0

ReverseSettles ==
  \/ \E data \in GeocodeData(ReverseResults) : ReverseResolve(data)
  \/ ReverseReject

\* C14: the displayed label follows the most recent location choice: once
\* all requests have settled, selectedCity is the label of the location
\* whose forecast request was issued last,
C14_LabelOfLastIssued ==
  (NothingInFlight /\ fetchSeq > 0) => selectedCity \in LabelsAt(lastIssued)

\* and a reverse lookup that settles after the user has selected a city
\* does not overwrite selectedCity.
C14_ReverseKeepsSelection ==
  [][(ReverseSettles /\ lastIssued # DeviceCoordinates)
       => selectedCity' = selectedCity]_vars

\* C14, both parts: the label shown is that of the most recent location
\* choice, during a reverse lookup's flight and after everything settled
C14_LabelFollowsLastChoice ==
  []C14_LabelOfLastIssued /\ C14_ReverseKeepsSelection

====
